---- MODULE Spec2Model ----
(***************************************************************************)
(* A model of validator.ts: the validator primitives (required, min, max,  *)
(* minLength, maxLength, pattern), the shared emptiness predicate and the  *)
(* combinator validate with executeValidators and mergeErrors.             *)
(*                                                                         *)
(* JavaScript values are records [kind, n, s]: kind is the runtime type,   *)
(* n the numeric payload (a number's value, a boolean's 0/1) and s the     *)
(* sequence payload (a string's characters, an array's elements).  The     *)
(* only mutable state the program touches is the lastIndex property of the *)
(* RegExp objects handed to Validators.pattern.                            *)
(***************************************************************************)
EXTENDS Integers, Sequences, FiniteSets, TLC

VARIABLES
    pc,          \* "idle", "exec" (inside validate), "done" (validate returned), "called" (a validator was called directly)
    value,       \* the value argument of the call in progress or last made
    validators,  \* the validators argument of validate as passed: [isArray, items]
    vs,          \* validate's local vs: the normalised list
    results,     \* the array executeValidators builds, one entry per call made
    log,         \* the validator invocations of the current call, in order
    ret,         \* <<result>> once validate has returned, <<>> before
    lastIndex,   \* lastIndex of every RegExp object
    expected     \* <<r>> when the current call repeats the previous one, which returned r

vars == <<pc, value, validators, vs, results, log, ret, lastIndex, expected>>

-----------------------------------------------------------------------------
(* Bounds of the model. *)

MaxNum == 12          \* numbers range over -2..MaxNum
MaxStrLen == 11       \* the strings "b", "bb", ... go up to this length
MaxValidators == 2    \* validate receives lists of at most this many validators

-----------------------------------------------------------------------------
(* JavaScript values. *)

Val(kind, n, s) == [kind |-> kind, n |-> n, s |-> s]

JSNull == Val("null", 0, <<>>)
JSUndefined == Val("undefined", 0, <<>>)
JSNaN == Val("NaN", 0, <<>>)
Num(n) == Val("number", n, <<>>)
Bool(b) == Val("boolean", IF b THEN 1 ELSE 0, <<>>)
Str(s) == Val("string", 0, s)
Arr(s) == Val("array", 0, s)

Rep(c, n) == [i \in 1..n |-> c]

Digits == <<"0", "1", "2", "3", "4", "5", "6", "7", "8", "9">>

IsDigit(c) == \E d \in 1..10 : Digits[d] = c

DigitValue(c) == (CHOOSE d \in 1..10 : Digits[d] = c) - 1

RECURSIVE NatToChars(_)
NatToChars(n) ==
    IF n < 10 THEN <<Digits[n + 1]>>
    ELSE NatToChars(n \div 10) \o <<Digits[(n % 10) + 1]>>

RECURSIVE JoinWith(_, _)
JoinWith(s, sep) ==
    IF Len(s) = 0 THEN <<>>
    ELSE IF Len(s) = 1 THEN <<s[1]>>
    ELSE <<s[1]>> \o sep \o JoinWith(Tail(s), sep)

(* String(v): the characters of v converted to a string. *)
ToChars(v) ==
    CASE v.kind = "null" -> <<"n", "u", "l", "l">>
      [] v.kind = "undefined" -> <<"u", "n", "d", "e", "f", "i", "n", "e", "d">>
      [] v.kind = "NaN" -> <<"N", "a", "N">>
      [] v.kind = "number" ->
            IF v.n < 0 THEN <<"-">> \o NatToChars(0 - v.n) ELSE NatToChars(v.n)
      [] v.kind = "boolean" ->
            IF v.n = 1 THEN <<"t", "r", "u", "e">> ELSE <<"f", "a", "l", "s", "e">>
      [] v.kind = "string" -> v.s
      [] v.kind = "array" -> JoinWith(v.s, <<",">>)

RECURSIVE Text(_)
Text(chars) == IF Len(chars) = 0 THEN "" ELSE chars[1] \o Text(Tail(chars))

(* `${v}` inside a template literal. *)
Interpolate(v) == Text(ToChars(v))

RECURSIVE DigitsToNat(_)
DigitsToNat(s) ==
    IF Len(s) = 0 THEN 0
    ELSE 10 * DigitsToNat(SubSeq(s, 1, Len(s) - 1)) + DigitValue(s[Len(s)])

NumberResult(nan, n) == [nan |-> nan, n |-> n]

(* Number(s) for a string: the empty string is 0, a run of decimal digits   *)
(* with an optional sign is its value, anything else is NaN.                *)
StringToNumber(s) ==
    LET body == IF Len(s) > 0 /\ s[1] = "-" THEN Tail(s) ELSE s
    IN  IF Len(s) = 0 THEN NumberResult(FALSE, 0)
        ELSE IF Len(body) > 0 /\ \A i \in 1..Len(body) : IsDigit(body[i])
             THEN NumberResult(FALSE,
                      IF body = s THEN DigitsToNat(body) ELSE 0 - DigitsToNat(body))
             ELSE NumberResult(TRUE, 0)

(* Number(v): the coercion isNaN and the relational operators apply. *)
ToNumber(v) ==
    CASE v.kind = "null" -> NumberResult(FALSE, 0)
      [] v.kind = "undefined" -> NumberResult(TRUE, 0)
      [] v.kind = "NaN" -> NumberResult(TRUE, 0)
      [] v.kind = "number" -> NumberResult(FALSE, v.n)
      [] v.kind = "boolean" -> NumberResult(FALSE, v.n)
      [] v.kind = "string" -> StringToNumber(v.s)
      [] v.kind = "array" -> StringToNumber(JoinWith(v.s, <<",">>))

(* isNaN as a type test: everything that is not of type number is NaN. *)
isNaNByType(v) == v.kind # "number"

isNaN(v) == ToNumber(v).nan

(* a < b and a > b with b a number: both sides are coerced, and a           *)
(* comparison with NaN is false.                                            *)
(* a <= b in place of a < b. *)
LessThanOrEqual(a, b) ==
    /\ ~ToNumber(a).nan
    /\ ~ToNumber(b).nan
    /\ ToNumber(a).n <= ToNumber(b).n

LessThan(a, b) ==
    /\ ~ToNumber(a).nan
    /\ ~ToNumber(b).nan
    /\ ToNumber(a).n < ToNumber(b).n

GreaterThan(a, b) ==
    /\ ~ToNumber(a).nan
    /\ ~ToNumber(b).nan
    /\ ToNumber(a).n > ToNumber(b).n

HasLength(v) == v.kind \in {"string", "array"}

(* String(value).length in place of value.length ?? 0. *)
LengthOfString(v) == Len(ToChars(v))

(* value.length ?? 0 *)
LengthOrZero(v) == IF HasLength(v) THEN Len(v.s) ELSE 0

(* !value in place of the emptiness test. *)
isEmptyValueFalsy(v) ==
    \/ v.kind \in {"null", "undefined", "NaN"}
    \/ (v.kind \in {"number", "boolean"} /\ v.n = 0)
    \/ (v.kind = "string" /\ Len(v.s) = 0)

isEmptyValue(v) ==
    \/ v.kind = "null"
    \/ v.kind = "undefined"
    \/ (HasLength(v) /\ Len(v.s) = 0)

-----------------------------------------------------------------------------
(* RegExp objects.  A regular expression is a literal, optionally anchored  *)
(* at the start (^) and optionally followed by .+ ; the g flag makes test() *)
(* start at lastIndex and write lastIndex back.                             *)

RegExp(anchored, lit, dotPlus, global) ==
    [anchored |-> anchored, lit |-> lit, dotPlus |-> dotPlus, global |-> global]

RegExpIds == {"/a/g", "/^ab.+/", "/b/"}

RegExpOf(id) ==
    CASE id = "/a/g" -> RegExp(FALSE, <<"a">>, FALSE, TRUE)
      [] id = "/^ab.+/" -> RegExp(TRUE, <<"a", "b">>, TRUE, FALSE)
      [] id = "/b/" -> RegExp(FALSE, <<"b">>, FALSE, FALSE)

(* String(regexp): /source/flags *)
RegExpToString(r) ==
    "/" \o (IF r.anchored THEN "^" ELSE "") \o Text(r.lit)
        \o (IF r.dotPlus THEN ".+" ELSE "") \o "/" \o (IF r.global THEN "g" ELSE "")

(* The end index of a match of r in s that starts at index i (0-based), or  *)
(* -1 when there is none.  .+ is greedy and s holds no line terminators.    *)
MatchAt(r, s, i) ==
    LET e == i + Len(r.lit)
    IN  IF r.anchored /\ i # 0 THEN -1
        ELSE IF e > Len(s) THEN -1
        ELSE IF SubSeq(s, i + 1, e) # r.lit THEN -1
        ELSE IF r.dotPlus THEN (IF e < Len(s) THEN Len(s) ELSE -1)
        ELSE e

(* RegExp.prototype.test(v) on a regexp whose lastIndex is li: whether it   *)
(* matched, and lastIndex afterwards.                                       *)
RegExpTest(r, v, li) ==
    LET s == ToChars(v)
        start == IF r.global THEN li ELSE 0
        hits == {i \in start..Len(s) : MatchAt(r, s, i) >= 0}
        first == CHOOSE i \in hits : \A j \in hits : i <= j
    IN  IF start > Len(s) \/ hits = {}
        THEN [matched |-> FALSE, lastIndex |-> IF r.global THEN 0 ELSE li]
        ELSE [matched |-> TRUE,
              lastIndex |-> IF r.global THEN MatchAt(r, s, first) ELSE li]

-----------------------------------------------------------------------------
(* ValidationErrors | null.  An errors object is a function from rule keys  *)
(* to details; null is a record of its own.                                 *)

Null == [null |-> TRUE]

EmptyObject == [k \in {} |-> Null]

Keys(e) == IF e = Null THEN {} ELSE DOMAIN e

(* { ...b, ...a }: the earlier entry wins. *)
SpreadKeepFirst(a, b) ==
    [k \in DOMAIN a \cup DOMAIN b |-> IF k \in DOMAIN a THEN a[k] ELSE b[k]]

(* { ...a, ...b } *)
Spread(a, b) ==
    [k \in DOMAIN a \cup DOMAIN b |-> IF k \in DOMAIN b THEN b[k] ELSE a[k]]

-----------------------------------------------------------------------------
(* Validators. *)

required(v) ==
    IF isEmptyValue(v)
    THEN [required |-> [message |-> "\"value\" is required"]]
    ELSE Null

(* min without the skip of empty values. *)
minNoSkip(m, v) ==
    IF ~isNaN(v) /\ LessThan(v, m)
    THEN [min |-> [message |-> "\"value\" must be greater than " \o Interpolate(m),
                   reason |-> [min |-> m, actual |-> v]]]
    ELSE Null

min(m, v) ==
    IF isEmptyValue(v) \/ isEmptyValue(m) THEN Null
    ELSE IF ~isNaN(v) /\ LessThan(v, m)
         THEN [min |-> [message |-> "\"value\" must be greater than " \o Interpolate(m),
                        reason |-> [min |-> m, actual |-> v]]]
         ELSE Null

max(m, v) ==
    IF isEmptyValue(v) \/ isEmptyValue(m) THEN Null
    ELSE IF ~isNaN(v) /\ GreaterThan(v, m)
         THEN [max |-> [message |-> "\"value\" must be less than " \o Interpolate(m),
                        reason |-> [max |-> m, actual |-> v]]]
         ELSE Null

minLength(n, v) ==
    IF isEmptyValue(v) THEN Null
    ELSE IF LessThan(Num(LengthOrZero(v)), n)
         THEN [minLength |->
                  [message |-> "\"value\" length must be at least " \o Interpolate(n)
                                   \o " characters long",
                   reason |-> [requiredLength |-> n, actualLength |-> LengthOrZero(v)]]]
         ELSE Null

maxLength(n, v) ==
    IF isEmptyValue(v) THEN Null
    ELSE IF GreaterThan(Num(LengthOrZero(v)), n)
         THEN [maxLength |->
                  [message |-> "\"value\" length must be less than " \o Interpolate(n)
                                   \o " characters long",
                   reason |-> [requiredLength |-> n, actualLength |-> LengthOrZero(v)]]]
         ELSE Null

(* pattern(regexp)(v) with the regexp's lastIndex at li: the validator's    *)
(* result and the regexp's lastIndex afterwards.                            *)
pattern(id, v, li) ==
    LET t == RegExpTest(RegExpOf(id), v, li)
    IN  IF isEmptyValue(v) THEN [result |-> Null, lastIndex |-> li]
        ELSE [result |->
                 IF t.matched THEN Null
                 ELSE [pattern |->
                          [message |-> "\"value\" fails to match the required pattern: "
                                           \o RegExpToString(RegExpOf(id)),
                           reason |-> [requiredPattern |-> id, actualValue |-> v]]],
              lastIndex |-> t.lastIndex]

-----------------------------------------------------------------------------
(* Validator instances: ValidatorFn values.  A closure is its factory's     *)
(* name and the parameter it captured; a pattern closure captures a RegExp  *)
(* object (by identity); a caller's own validator returns a fixed           *)
(* ValidationErrors | null.                                                 *)

ValidatorFn(name, param, regexp, returns) ==
    [name |-> name, param |-> param, regexp |-> regexp, returns |-> returns]

Required == ValidatorFn("required", JSUndefined, "", Null)
MinOf(m) == ValidatorFn("min", m, "", Null)
MaxOf(m) == ValidatorFn("max", m, "", Null)
MinLengthOf(n) == ValidatorFn("minLength", n, "", Null)
MaxLengthOf(n) == ValidatorFn("maxLength", n, "", Null)
PatternOf(id) == ValidatorFn("pattern", JSUndefined, id, Null)
Custom(e) == ValidatorFn("custom", JSUndefined, "", e)

(* f(v) with the RegExp objects' lastIndex li: the result and lastIndex     *)
(* afterwards.                                                              *)
Apply(f, v, li) ==
    CASE f.name = "required" -> [result |-> required(v), lastIndex |-> li]
      [] f.name = "min" -> [result |-> min(f.param, v), lastIndex |-> li]
      [] f.name = "max" -> [result |-> max(f.param, v), lastIndex |-> li]
      [] f.name = "minLength" -> [result |-> minLength(f.param, v), lastIndex |-> li]
      [] f.name = "maxLength" -> [result |-> maxLength(f.param, v), lastIndex |-> li]
      [] f.name = "pattern" ->
            LET p == pattern(f.regexp, v, li[f.regexp])
            IN  [result |-> p.result,
                 lastIndex |-> [li EXCEPT ![f.regexp] = p.lastIndex]]
      [] f.name = "custom" -> [result |-> f.returns, lastIndex |-> li]

-----------------------------------------------------------------------------
(* The combinator. *)

(* errors.reduce((result, error) => ..., {}) *)
RECURSIVE Reduce(_, _)
Reduce(result, errors) ==
    IF Len(errors) = 0 THEN result
    ELSE Reduce(IF errors[1] # Null THEN Spread(result, errors[1]) ELSE result,
                Tail(errors))

(* mergeErrors without the conversion of {} to null. *)
mergeErrorsKeepsEmpty(errors) == Reduce(EmptyObject, errors)

mergeErrors(errors) ==
    LET result == Reduce(EmptyObject, errors)
    IN  IF Cardinality(DOMAIN result) = 0 THEN Null ELSE result

(* The validators argument of validate: an array of validators or one       *)
(* validator.                                                               *)
ArrayArg(items) == [isArray |-> TRUE, items |-> items, fn |-> Required]
LoneArg(f) == [isArray |-> FALSE, items |-> <<>>, fn |-> f]

(* Array.isArray(validators) ? validators : [validators] *)
Normalise(arg) == IF arg.isArray THEN arg.items ELSE <<arg.fn>>

Invocation(f, v) == [fn |-> f, arg |-> v]

ValidationResult(errors) == [errors |-> errors, valid |-> errors = Null]

-----------------------------------------------------------------------------
(* Inputs. *)

Numbers == {Num(n) : n \in (-2)..MaxNum}

Strings ==
    {Str(Rep("b", n)) : n \in 0..MaxStrLen}
        \cup {Str(<<"3">>), Str(<<"1", "2">>), Str(<<"a">>), Str(<<"a", "a">>),
              Str(<<"a", "b">>), Str(<<"a", "b", "a">>)}

Arrays == {Arr(<<>>), Arr(<<"7">>), Arr(<<"a", "b">>)}

Values == {JSNull, JSUndefined, JSNaN, Bool(TRUE), Bool(FALSE)}
              \cup Numbers \cup Strings \cup Arrays

Lengths == {Num(n) : n \in 0..(MaxStrLen + 1)}

AllValidators ==
    {Required}
        \cup {MinOf(m) : m \in Numbers \cup {JSUndefined}}
        \cup {MaxOf(m) : m \in Numbers \cup {JSUndefined}}
        \cup {MinLengthOf(n) : n \in Lengths}
        \cup {MaxLengthOf(n) : n \in Lengths}
        \cup {PatternOf(id) : id \in RegExpIds}

CustomDetail(text) == [message |-> text]

(* The validators validate is given lists of: the ones of the repository's  *)
(* tests, two with the same rule key, a pattern over a g-flagged RegExp and *)
(* validators of the caller's own.                                          *)
ListValidators ==
    {Required, MinOf(Num(5)), MaxOf(Num(10)), MinOf(Num(10)), PatternOf("/a/g"),
     Custom(EmptyObject),
     Custom([min |-> CustomDetail("custom min"), even |-> CustomDetail("custom even")])}

ListValues ==
    {JSNull, JSUndefined, Str(<<>>), Arr(<<>>), Str(<<"a">>), Str(<<"a", "a">>),
     Str(<<"3">>)} \cup Numbers

RECURSIVE SeqsUpTo(_, _)
SeqsUpTo(S, n) ==
    IF n = 0 THEN {<<>>}
    ELSE LET shorter == SeqsUpTo(S, n - 1)
         IN  shorter \cup {Append(s, x) : s \in shorter, x \in S}

(* The list of the tests '[Combine Validator]'. *)
CombineValidators == <<Required, MinOf(Num(5)), MaxOf(Num(10))>>

ValidatorsArgs ==
    {ArrayArg(items) : items \in SeqsUpTo(ListValidators, MaxValidators)}
        \cup {ArrayArg(CombineValidators)}
        \cup {LoneArg(f) : f \in ListValidators}

-----------------------------------------------------------------------------
(* The state machine. *)

Init ==
    /\ pc = "idle"
    /\ value = JSUndefined
    /\ validators = ArrayArg(<<>>)
    /\ vs = <<>>
    /\ results = <<>>
    /\ log = <<>>
    /\ ret = <<>>
    /\ lastIndex = [id \in RegExpIds |-> 0]
    /\ expected = <<>>

(* A caller applies one validator to a value: f(v). *)
CallValidator(f, v) ==
    /\ pc # "exec"
    /\ pc' = "called"
    /\ value' = v
    /\ validators' = LoneArg(f)
    /\ vs' = <<f>>
    /\ results' = <<Apply(f, v, lastIndex).result>>
    /\ log' = <<Invocation(f, v)>>
    /\ ret' = <<>>
    /\ lastIndex' = Apply(f, v, lastIndex).lastIndex
    /\ expected' = IF pc = "called" /\ vs = <<f>> /\ value = v THEN results ELSE <<>>

(* validate(v, arg) is entered: vs is set. *)
ValidateEnter(v, arg) ==
    /\ pc # "exec"
    /\ pc' = "exec"
    /\ value' = v
    /\ validators' = arg
    /\ vs' = Normalise(arg)
    /\ results' = <<>>
    /\ log' = <<>>
    /\ ret' = <<>>
    /\ expected' = IF pc = "done" /\ validators = arg /\ value = v THEN ret ELSE <<>>
    /\ UNCHANGED lastIndex

(* executeValidators: validators.map(v => v(value)) calls the next          *)
(* validator of the list.                                                   *)
ExecuteValidator ==
    /\ pc = "exec"
    /\ Len(results) < Len(vs)
    /\ LET f == vs[Len(results) + 1]
           r == Apply(f, value, lastIndex)
       IN  /\ results' = Append(results, r.result)
           /\ log' = Append(log, Invocation(f, value))
           /\ lastIndex' = r.lastIndex
    /\ UNCHANGED <<pc, value, validators, vs, ret, expected>>

(* validate returning as soon as one validator has reported an error. *)
ValidateReturnOnFirstError ==
    /\ pc = "exec"
    /\ \/ Len(results) = Len(vs)
       \/ (Len(results) > 0 /\ results[Len(results)] # Null)
    /\ ret' = <<ValidationResult(mergeErrors(results))>>
    /\ pc' = "done"
    /\ UNCHANGED <<value, validators, vs, results, log, lastIndex, expected>>

(* The map is over: mergeErrors folds the results and validate returns. *)
ValidateReturn ==
    /\ pc = "exec"
    /\ Len(results) = Len(vs)
    /\ ret' = <<ValidationResult(mergeErrors(results))>>
    /\ pc' = "done"
    /\ UNCHANGED <<value, validators, vs, results, log, lastIndex, expected>>

(* The caller drops the result it was given; the RegExp objects live on. *)
Discard ==
    /\ pc \in {"called", "done"}
    /\ pc' = "idle"
    /\ value' = JSUndefined
    /\ validators' = ArrayArg(<<>>)
    /\ vs' = <<>>
    /\ results' = <<>>
    /\ log' = <<>>
    /\ ret' = <<>>
    /\ expected' = <<>>
    /\ UNCHANGED lastIndex

(* A caller makes a call, makes the call it has just made once more, or     *)
(* drops the result; a call of validate runs to its return.                 *)
Next ==
    \/ pc = "idle"
          /\ \E f \in AllValidators \cup ListValidators, v \in Values : CallValidator(f, v)
    \/ pc = "called" /\ CallValidator(vs[1], value)
    \/ pc = "idle" /\ \E v \in ListValues, arg \in ValidatorsArgs : ValidateEnter(v, arg)
    \/ pc = "done" /\ ValidateEnter(value, validators)
    \/ ExecuteValidator
    \/ ValidateReturn
    \/ Discard

Spec == Init /\ [][Next]_vars

-----------------------------------------------------------------------------
(* Properties. *)

Returned == pc = "done"

Called(name) == pc = "called" /\ vs[1].name = name

Errors == ret[1].errors

RequiredError == [required |-> [message |-> "\"value\" is required"]]

(* C1 as stated: validate's result has valid == (errors == null); errors is *)
(* null exactly when no validator returned a non-null result, otherwise its *)
(* keys are the union of the keys of the non-null results; validate(v, [])  *)
(* is {errors: null, valid: true}.                                          *)
C1_AsStated ==
    Returned =>
        /\ ret[1].valid = (Errors = Null)
        /\ (Errors = Null) = (\A i \in 1..Len(results) : results[i] = Null)
        /\ (Errors # Null =>
               DOMAIN Errors = UNION {Keys(results[i]) : i \in 1..Len(results)})
        /\ (Len(vs) = 0 => ret[1] = [errors |-> Null, valid |-> TRUE])

(* C1 amended: validate's result has valid == (errors == null); errors is   *)
(* null exactly when no validator returned a result with at least one key   *)
(* (a validator may return an object without keys), otherwise its keys are  *)
(* the union of the keys of the non-null results; validate(v, []) is        *)
(* {errors: null, valid: true}.                                             *)
C1_ValidIffNoKeys ==
    Returned =>
        /\ ret[1].valid = (Errors = Null)
        /\ (Errors = Null) = (\A i \in 1..Len(results) : Keys(results[i]) = {})
        /\ (Errors # Null =>
               DOMAIN Errors = UNION {Keys(results[i]) : i \in 1..Len(results)})
        /\ (Len(vs) = 0 => ret[1] = [errors |-> Null, valid |-> TRUE])

C1_Witness ==
    /\ Returned
    /\ Len(results) = 2
    /\ results[1] = EmptyObject
    /\ results[2] = Null
    /\ ret[1] = [errors |-> Null, valid |-> TRUE]

(* C2: validate never short-circuits: while it runs the invocations made    *)
(* are those of a prefix of the list, in order, each on validate's value,   *)
(* and when it has returned every validator of the list was invoked exactly *)
(* once, also after an earlier one returned an error; a lone validator f is *)
(* the list [f].                                                            *)
C2_NoShortCircuit ==
    pc \in {"exec", "done"} =>
        LET given == IF validators.isArray THEN validators.items ELSE <<validators.fn>>
        IN  /\ Len(log) <= Len(given)
            /\ Len(results) = Len(log)
            /\ \A i \in 1..Len(log) : log[i] = [fn |-> given[i], arg |-> value]
            /\ (Returned => Len(log) = Len(given))

C2_Witness ==
    /\ Returned
    /\ validators.isArray
    /\ Len(log) = 2
    /\ results[1] # Null
    /\ results[2] # Null

(* C3: for each key of the merged errors, the detail is the one of the last *)
(* validator of the list whose result has that key, every key of every      *)
(* result is a key of the merged errors, and validate(4, [min(5), min(10)]) *)
(* reports the reason {min: 10, actual: 4}.                                 *)
C3_LastValidatorWins ==
    Returned =>
        LET has(k) == {i \in 1..Len(results) : k \in Keys(results[i])}
            last(k) == CHOOSE i \in has(k) : \A j \in has(k) : j <= i
        IN  /\ \A i \in 1..Len(results) : \A k \in Keys(results[i]) :
                   k \in Keys(Errors) /\ Errors[k] = results[last(k)][k]
            /\ (value = Num(4) /\ validators = ArrayArg(<<MinOf(Num(5)), MinOf(Num(10))>>)
                   => Errors.min.reason = [min |-> Num(10), actual |-> Num(4)])

C3_Witness ==
    /\ Returned
    /\ value = Num(4)
    /\ validators = ArrayArg(<<MinOf(Num(5)), MinOf(Num(10))>>)
    /\ results[1] # results[2]
    /\ Errors = results[2]

C5_EmptyPassesAllButRequired ==
    LET empty == value \in {JSNull, JSUndefined, Str(<<>>), Arr(<<>>)}
        rule == vs[1].name \in {"min", "max", "minLength", "maxLength", "pattern"}
    IN  /\ (pc = "called" /\ rule /\ empty => results[1] = Null)
        /\ (Returned /\ validators = ArrayArg(CombineValidators) /\ empty
               => ret[1] = [errors |-> RequiredError, valid |-> FALSE])

C5_Witness ==
    /\ Returned
    /\ validators = ArrayArg(CombineValidators)
    /\ value = Str(<<>>)
    /\ results = <<RequiredError, Null, Null>>

(* C6: for numbers v and m, min(m)(v) is null iff v >= m and otherwise the  *)
(* 'min' error with its message and reason {min: m, actual: v}; max(m)(v)   *)
(* is null iff v <= m and otherwise the 'max' error with its message and    *)
(* reason {max: m, actual: v}; validate(v, [required, min(5), max(10)]) is  *)
(* valid exactly for 5 <= v <= 10.                                          *)
C6_NumericBounds ==
    LET m == vs[1].param
    IN  /\ (Called("min") /\ value.kind = "number" /\ m.kind = "number" =>
               results[1] =
                   IF value.n >= m.n THEN Null
                   ELSE [min |->
                            [message |-> "\"value\" must be greater than " \o ToString(m.n),
                             reason |-> [min |-> m, actual |-> value]]])
        /\ (Called("max") /\ value.kind = "number" /\ m.kind = "number" =>
               results[1] =
                   IF value.n <= m.n THEN Null
                   ELSE [max |->
                            [message |-> "\"value\" must be less than " \o ToString(m.n),
                             reason |-> [max |-> m, actual |-> value]]])
        /\ (Returned /\ validators = ArrayArg(CombineValidators) /\ value.kind = "number"
               => ret[1].valid = (5 <= value.n /\ value.n <= 10))

C6_Witness ==
    /\ Called("min")
    /\ value.kind = "number"
    /\ value = vs[1].param
    /\ results[1] = Null

(* C7 as stated: a non-empty value that is not a number (a non-empty        *)
(* string, a string of digits included, or a boolean) passes min(m) and     *)
(* max(m) for every threshold m.                                            *)
C7_AsStated ==
    LET bound == pc = "called" /\ vs[1].name \in {"min", "max"}
        nonNumber == value.kind = "boolean" \/ (value.kind = "string" /\ Len(value.s) > 0)
    IN  bound /\ nonNumber => results[1] = Null

(* What Number(v) is for the values of the model that are not numbers. *)
C7_Reading(v) ==
    CASE v = Bool(TRUE) -> <<1>>
      [] v = Bool(FALSE) -> <<0>>
      [] v = Str(<<"3">>) -> <<3>>
      [] v = Str(<<"1", "2">>) -> <<12>>
      [] v = Arr(<<"7">>) -> <<7>>
      [] OTHER -> <<>>

(* C7 amended: a non-empty value that is not a number and does not convert  *)
(* to one (isNaN(v): NaN, a string that is not a numeral, an array of       *)
(* several elements) passes min(m) and max(m) for every threshold m; a      *)
(* string of digits, a boolean or a one-element array of such is converted  *)
(* (Number(v)) and compared like that number: min(m)(v) is null iff         *)
(* Number(v) >= m and max(m)(v) is null iff Number(v) <= m.                 *)
C7_NonNumericPasses ==
    LET bound == pc = "called" /\ vs[1].name \in {"min", "max"} /\ vs[1].param.kind = "number"
        nonNumber == \/ value.kind \in {"NaN", "boolean"}
                     \/ (value.kind \in {"string", "array"} /\ Len(value.s) > 0)
        n == C7_Reading(value)
        m == vs[1].param.n
    IN  bound /\ nonNumber =>
            /\ (n = <<>> => results[1] = Null)
            /\ (n # <<>> /\ vs[1].name = "min" => (results[1] = Null) = (n[1] >= m))
            /\ (n # <<>> /\ vs[1].name = "max" => (results[1] = Null) = (n[1] <= m))
            /\ (results[1] # Null => results[1][vs[1].name].reason.actual = value)

C7_Witness ==
    /\ Called("min")
    /\ vs[1].param = Num(5)
    /\ value = Str(<<"3">>)
    /\ results[1] # Null

C9_MaxLengthTenRejectsTenAndMore ==
    (Called("maxLength") /\ vs[1].param = Num(10) /\ value.kind = "string"
         /\ Len(value.s) \in 10..99)
        => results[1] =
               [maxLength |->
                   [message |-> "\"value\" length must be less than 10 characters long",
                    reason |-> [requiredLength |-> Num(10),
                                actualLength |-> Len(value.s)]]]

(* C10: validators are pure: a call made once more, of a validator or of    *)
(* validate, on the same arguments returns an equal result, and no call     *)
(* changes the parameter a validator was built with.                        *)
C10_RepeatedCallSameResult ==
    /\ (pc = "called" /\ expected # <<>> => results = expected)
    /\ (pc = "done" /\ expected # <<>> => ret = expected)

====
